---- MODULE Spec2Model ----
(***************************************************************************)
(* A model of sFTP_loader.py: the interactive shell (main), the prompt     *)
(* helper (ask), the scoped session (sftp_connection), the five remote     *)
(* operations (upload_file, create_dir, delete, view_contents,             *)
(* stfp_formatter) and the CSV writer (output_csv).                        *)
(*                                                                         *)
(* Representation.                                                         *)
(*  - A remote path is the sequence of its components; a remote name is a  *)
(*    number of 1..MaxName, ordered as Python orders the strings that      *)
(*    sorted() compares.  The remote store is the pair of the sets of its  *)
(*    directories and of its regular files; <<>> is its root.              *)
(*  - A local path is a sequence of components too, DotDot standing for    *)
(*    the component "..".                                                  *)
(*  - Text typed at a prompt is a string of a finite vocabulary; Strip and *)
(*    Lower are str.strip and str.lower on that vocabulary.                *)
(*  - The box-drawing connectors of the tree are written in ASCII:         *)
(*    "L-- " for the last-entry connector, "|-- " for the other one and    *)
(*    "|   " for the vertical-bar continuation.                            *)
(*  - The modification times of a listing are not modelled.                *)
(***************************************************************************)
EXTENDS Integers, Sequences, FiniteSets, TLC

\* ------------------------------------------------------------------ bounds
\* Number of commands the shell loop runs before only "exit" is typed.
MaxCommands == 2
\* Remote names are 1..MaxName.
MaxName == 2
\* Longest remote path of the tree-rendering specification.
MaxDepth == 4
\* Most entries of the remote store of the tree-rendering specification.
MaxEntries == 5

\* --------------------------------------------------------------- constants
\* port = 22
DefaultPort == 22
\* The local path component ".." that Path.resolve() removes.
DotDot == 0

\* ------------------------------------------------------------------- state
VARIABLES
    pc,          \* position of main (a prompt, a call, a with-body, an except clause)
    host,        \* main: host
    username,    \* main: username
    password,    \* main: password
    port,        \* main: port (0 before line 264 ran)
    loc,         \* main's other locals: choice, src, dst_dir, new_dir, ...
    conn,        \* the process's transports and SFTP channels
    remote,      \* the remote store
    raised,      \* the exception that is propagating or was last raised
    logged,      \* the last log.error message of main ("none" if none)
    exitStatus,  \* -1 while running, else the process's exit status
    printed,     \* the lines stfp_formatter printed in the current command
    csvFile,     \* the header and rows output_csv wrote
    hist         \* history of the current command (see InitHist)

vars == <<pc, host, username, password, port, loc, conn, remote, raised,
          logged, exitStatus, printed, csvFile, hist>>

\* ------------------------------------------------------------------- text
\* str.strip on the vocabulary.
Strip(s) ==
    CASE s = " exit " -> "exit"
      [] s = " View " -> "View"
      [] s = " h2 "   -> "h2"
      [] OTHER        -> s

\* str.lower on the vocabulary.
Lower(s) ==
    CASE s = "EXIT"   -> "exit"
      [] s = "Exit"   -> "exit"
      [] s = "View"   -> "view"
      [] s = "Upload" -> "upload"
      [] s = "File"   -> "file"
      [] s = "Folder" -> "folder"
      [] s = "Tree"   -> "tree"
      [] s = "Yes"    -> "yes"
      [] s = "No"     -> "no"
      [] OTHER        -> s

\* What the operator may type.
ExitTokens == {"exit", "EXIT", " exit "}
HostInputs == {"h1", " h2 "} \cup ExitTokens
UsernameInputs == {"u1", "u2"} \cup ExitTokens
PasswordInputs == {"p1", "p2"} \cup ExitTokens
ChoiceInputs == {"upload", "Upload", "folder", "delete", "view", " View ", "list"} \cup ExitTokens
KindInputs == {"file", "folder", "File", "both"} \cup ExitTokens
ModeInputs == {"list", "tree", "Tree", "csv", "all"} \cup ExitTokens
YesNoInputs == {"yes", "Yes", "no", "No", "maybe"} \cup ExitTokens
OutFileInputs == {"out.csv"} \cup ExitTokens

\* ask(): the stripped response, and whether ask() ends the process.
AskResponse(typed) == Strip(typed)
AskExits(typed) == Lower(AskResponse(typed)) = "exit"

\* ---------------------------------------------------------- local files
Names == 1..MaxName

\* The local file system: directories, regular files and symbolic links.
LocalDirs == {<<>>, <<1>>}
LocalFiles == {<<1, 1>>, <<2>>}
LocalLinks == {<<1, 2>>}
LocalLinkTarget(p) == <<1, 1>>

\* Local paths the operator may type.
LocalInputs == {<<2>>, <<1>>, <<1, 1>>, <<1, 2>>, <<1, DotDot, 2>>, <<1, 1, DotDot>>, <<2, 1>>}

\* Path.resolve(): ".." is removed with the component before it, and a
\* symbolic link is replaced by its target.
RECURSIVE ResolveFrom(_, _)
ResolveFrom(done, rest) ==
    IF rest = <<>> THEN done
    ELSE IF Head(rest) = DotDot
         THEN ResolveFrom(IF done = <<>> THEN done ELSE SubSeq(done, 1, Len(done) - 1),
                          Tail(rest))
         ELSE LET next == Append(done, Head(rest)) IN
              ResolveFrom(IF next \in LocalLinks THEN LocalLinkTarget(next) ELSE next,
                          Tail(rest))

Resolve(p) == ResolveFrom(<<>>, p)

\* local_path.exists() and local_path.is_file()
IsLocalFile(p) == p \in LocalFiles

\* ---------------------------------------------------------- remote store
Parent(p) == SubSeq(p, 1, Len(p) - 1)

Kind(s, p) == IF p \in s.dirs THEN "dir" ELSE IF p \in s.files THEN "file" ELSE "none"

Entries(s) == (s.dirs \cup s.files) \ {<<>>}

ChildPaths(s, p) == {q \in Entries(s) : Len(q) = Len(p) + 1 /\ Parent(q) = p}

\* Remote paths the operator may type in the shell.
RemoteInputs == {<<1>>, <<1, 1>>, <<1, 2>>, <<2>>, <<1, 2, 1>>}

\* The store the shell specification starts with.
InitRemote == [dirs |-> {<<>>, <<1>>, <<1, 2>>}, files |-> {<<1, 1>>, <<2>>}]

\* The server's answers to the primitive requests.
SftpStat(s, p) == [ok |-> Kind(s, p) # "none", isdir |-> Kind(s, p) = "dir"]

SftpListdir(s, p) ==
    [ok |-> Kind(s, p) = "dir", names |-> {q[Len(q)] : q \in ChildPaths(s, p)}]

SftpMkdir(s, p) ==
    IF p # <<>> /\ Kind(s, p) = "none" /\ Kind(s, Parent(p)) = "dir"
    THEN [ok |-> TRUE, store |-> [s EXCEPT !.dirs = @ \cup {p}]]
    ELSE [ok |-> FALSE, store |-> s]

SftpRemove(s, p) ==
    IF Kind(s, p) = "file"
    THEN [ok |-> TRUE, store |-> [s EXCEPT !.files = @ \ {p}]]
    ELSE [ok |-> FALSE, store |-> s]

SftpRmdir(s, p) ==
    IF p # <<>> /\ Kind(s, p) = "dir" /\ ChildPaths(s, p) = {}
    THEN [ok |-> TRUE, store |-> [s EXCEPT !.dirs = @ \ {p}]]
    ELSE [ok |-> FALSE, store |-> s]

SftpPut(s, p) ==
    IF p # <<>> /\ Kind(s, p) # "dir" /\ Kind(s, Parent(p)) = "dir"
    THEN [ok |-> TRUE, store |-> [s EXCEPT !.files = @ \cup {p}]]
    ELSE [ok |-> FALSE, store |-> s]

\* ------------------------------------------------------- sftp_connection
\* How entering sftp_connection can end: the socket cannot be opened
\* (pm.Transport raises), the credentials are rejected (transport.connect
\* raises), the channel is refused (from_transport raises), or the session
\* is yielded.
ConnectOutcomes == {"ok", "unreachable", "auth", "channel"}

InitConn == [transports |-> 0, channels |-> 0, sftp |-> "none", port |-> 0]

\* Lines 51-53: the transports and channels open once entry has ended with
\* outcome o.  Nothing of it is inside the try statement.
SessionEnter(c, o, prt) ==
    [transports |-> IF o = "unreachable" THEN c.transports ELSE c.transports + 1,
     channels   |-> IF o = "ok" THEN c.channels + 1 ELSE c.channels,
     sftp       |-> IF o = "ok" THEN "open" ELSE "none",
     port       |-> prt]

EnterRaises(o) ==
    CASE o = "auth" -> "AuthenticationException"
      [] o = "ok"   -> "none"
      [] OTHER      -> "SSHException"

\* sftp.close(): closes the channel of the handle; a second call does nothing.
CloseChannel(c) ==
    IF c.sftp = "open"
    THEN [c EXCEPT !.channels = @ - 1, !.sftp = "closed"]
    ELSE c

\* transport.close(): closes the transport and the channel on it.
CloseTransport(c) ==
    [CloseChannel(c) EXCEPT !.transports = @ - 1]

\* A mutation of SessionExit: transport.close() is left out.
SessionExitLeak(c) == CloseChannel(c)

\* The finally clause of sftp_connection.
SessionExit(c) == CloseTransport(CloseChannel(c))

\* -------------------------------------------------------------- upload_file
\* A mutation of RemoteFile: the name of the path as typed, not as resolved.
RemoteFileRawName(remote_dir, src) == Append(remote_dir, src[Len(src)])

\* remote_file = remote_dir / local_path.name, local_path being resolved.
RemoteFile(remote_dir, src) ==
    LET local_path == Resolve(src) IN Append(remote_dir, local_path[Len(local_path)])

\* ---------------------------------------------------------------- create_dir
\* A mutation of CreateDirExcept: the except clause raises e again.
CreateDirExceptReraises(e) == e

\* The exception that leaves create_dir when sftp.mkdir raised e: none, the
\* except clause prints and returns.
CreateDirExcept(e) == "none"

\* -------------------------------------------------------------------- delete
\* The body of delete's with statement on store s: the exception it ends
\* with, the requests it sent, and the store it leaves.  (First a mutation
\* of it that leaves out the S_ISDIR test.)
DeleteOutcomeNoDirCheck(s, p, deletion_type) ==
    IF deletion_type = "file"
    THEN IF ~SftpStat(s, p).ok
         THEN [raised |-> "FileNotFoundError", requests |-> << <<"stat", p>> >>, store |-> s]
         ELSE LET r == SftpRemove(s, p) IN
              [raised |-> IF r.ok THEN "none" ELSE "IOError",
               requests |-> << <<"stat", p>>, <<"remove", p>> >>, store |-> r.store]
    ELSE IF deletion_type = "folder"
    THEN LET r == SftpRmdir(s, p) IN
         [raised |-> IF r.ok THEN "none" ELSE "IOError",
          requests |-> << <<"rmdir", p>> >>, store |-> r.store]
    ELSE [raised |-> "none", requests |-> <<>>, store |-> s]

DeleteOutcome(s, p, deletion_type) ==
    IF deletion_type = "file"
    THEN IF ~SftpStat(s, p).ok
         THEN [raised |-> "FileNotFoundError", requests |-> << <<"stat", p>> >>, store |-> s]
         ELSE IF SftpStat(s, p).isdir
         THEN [raised |-> "IsADirectoryError", requests |-> << <<"stat", p>> >>, store |-> s]
         ELSE LET r == SftpRemove(s, p) IN
              [raised |-> IF r.ok THEN "none" ELSE "IOError",
               requests |-> << <<"stat", p>>, <<"remove", p>> >>, store |-> r.store]
    ELSE IF deletion_type = "folder"
    THEN LET r == SftpRmdir(s, p) IN
         [raised |-> IF r.ok THEN "none" ELSE "IOError",
          requests |-> << <<"rmdir", p>> >>, store |-> r.store]
    ELSE [raised |-> "none", requests |-> <<>>, store |-> s]

\* ------------------------------------------------------------- view_contents
\* sorted(): the names in ascending order.
RECURSIVE SortNames(_)
SortNames(S) ==
    IF S = {} THEN <<>>
    ELSE LET m == CHOOSE x \in S : \A y \in S : x <= y IN <<m>> \o SortNames(S \ {m})

\* The rows view_contents returns for directory p (the names; no time).
ViewRows(s, p) == SortNames(SftpListdir(s, p).names)

\* ------------------------------------------------------------ stfp_formatter
\* branch: idx counts from 0 and n is len(entries).
Branch(idx, n) == IF idx = n - 1 THEN "L-- " ELSE "|-- "

Suffix(is_dir) == IF is_dir THEN "/" ELSE ""

\* A mutation of Extension: the two extensions are swapped.
ExtensionSwapped(idx, n) == IF idx = n - 1 THEN "|   " ELSE "    "

\* extension: what the prefix of the children of a directory gains.
Extension(idx, n) == IF idx = n - 1 THEN "    " ELSE "|   "

\* _walk: the lines printed for directory path under prefix.  A prefix is the
\* sequence of the extensions it is the concatenation of; full is the path
\* _walk computes for the entry of the line.
RECURSIVE Walk(_, _, _), WalkFrom(_, _, _, _, _)
Walk(s, path, prefix) ==
    WalkFrom(s, path, prefix, SortNames(SftpListdir(s, path).names), 0)

WalkFrom(s, path, prefix, entries, idx) ==
    IF idx >= Len(entries) THEN <<>>
    ELSE LET name == entries[idx + 1]
             full == Append(path, name)
             is_dir == SftpStat(s, full).isdir
             line == [prefix |-> prefix, branch |-> Branch(idx, Len(entries)),
                      name |-> name, suffix |-> Suffix(is_dir), full |-> full]
         IN  <<line>>
             \o (IF is_dir
                 THEN Walk(s, full, prefix \o <<Extension(idx, Len(entries))>>)
                 ELSE <<>>)
             \o WalkFrom(s, path, prefix, entries, idx + 1)

\* ------------------------------------------------------------------- main
InitLoc ==
    [choice |-> "", src |-> <<>>, dst_dir |-> <<>>, new_dir |-> <<>>,
     deletion_type |-> "", remote_dir |-> <<>>, view_mode |-> "", files |-> <<>>,
     out_file |-> "", restart |-> "", same_creds |-> ""]

\* History of the run, for stating the properties:
\*   commands        commands started so far
\*   called          the operation the current command called ("none" if none yet)
\*   bodyDone        whether the with-body of that operation ran
\*   connects        times the current command entered sftp_connection
\*   requests        mutating requests (and delete's stat) the command sent
\*   before          the remote store when the command started
\*   failure         what failed in the current command ("none" if nothing)
\*   exitTyped       whether the operator ever typed the exit token
\*   unrecognizedAt  the prompt of the last unrecognized answer of the command
\*   typed           the credentials as last typed (stripped)
InitHist ==
    [commands |-> 0, called |-> "none", bodyDone |-> FALSE, connects |-> 0,
     requests |-> <<>>, before |-> InitRemote, failure |-> "none",
     exitTyped |-> FALSE, unrecognizedAt |-> "none",
     typed |-> [host |-> "", username |-> "", password |-> ""]]

InitPrinted == [header |-> <<>>, lines |-> <<>>]

InitCsvFile == [header |-> <<>>, rows |-> <<>>]

Init ==
    /\ pc = "ask_host"
    /\ host = "" /\ username = "" /\ password = "" /\ port = 0
    /\ loc = InitLoc
    /\ conn = InitConn
    /\ remote = InitRemote
    /\ raised = "none" /\ logged = "none" /\ exitStatus = -1
    /\ printed = InitPrinted
    /\ csvFile = InitCsvFile
    /\ hist = InitHist

IsExitToken(typed) == Lower(Strip(typed)) = "exit"

\* The history once `typed` was entered at a prompt.
NoteTyped(h, typed) == [h EXCEPT !.exitTyped = @ \/ IsExitToken(typed)]

\* The history when the command prompt is answered.
NewCommand(h) ==
    [h EXCEPT !.called = "none", !.bodyDone = FALSE, !.connects = 0,
              !.requests = <<>>, !.before = remote, !.failure = "none",
              !.unrecognizedAt = "none"]

\* sys.exit(status)
SysExit(status) == pc' = "done" /\ exitStatus' = status

credVars == <<host, username, password, port>>
opVars == <<conn, remote, raised, printed, csvFile>>

\* ask() read the exit token: log.info("Goodbye!"); sys.exit(0).
AskGoodbye(typed) ==
    /\ AskExits(typed)
    /\ SysExit(0)
    /\ hist' = NoteTyped(hist, typed)
    /\ UNCHANGED <<credVars, loc, opVars, logged>>

\* host = ask("Host: ").strip()
AskHost ==
    /\ pc = "ask_host"
    /\ \E typed \in HostInputs :
        \/ AskGoodbye(typed)
        \/ /\ ~AskExits(typed)
           /\ host' = Strip(AskResponse(typed))
           /\ pc' = "ask_username"
           /\ hist' = [NoteTyped(hist, typed) EXCEPT !.typed.host = Strip(typed)]
           /\ UNCHANGED <<username, password, port, loc, opVars, logged, exitStatus>>

\* username = ask("Username: ")
AskUsername ==
    /\ pc = "ask_username"
    /\ \E typed \in UsernameInputs :
        \/ AskGoodbye(typed)
        \/ /\ ~AskExits(typed)
           /\ username' = AskResponse(typed)
           /\ pc' = "ask_password"
           /\ hist' = [NoteTyped(hist, typed) EXCEPT !.typed.username = Strip(typed)]
           /\ UNCHANGED <<host, password, port, loc, opVars, logged, exitStatus>>

\* password = ask("Password: ").strip(); port = 22
AskPassword ==
    /\ pc = "ask_password"
    /\ \E typed \in PasswordInputs :
        \/ AskGoodbye(typed)
        \/ /\ ~AskExits(typed)
           /\ password' = Strip(AskResponse(typed))
           /\ port' = DefaultPort
           /\ pc' = "ask_choice"
           /\ hist' = [NoteTyped(hist, typed) EXCEPT !.typed.password = Strip(typed)]
           /\ UNCHANGED <<host, username, loc, opVars, logged, exitStatus>>

Commands == {"upload", "folder", "delete", "view"}

\* The first prompt of each command.
FirstPrompt(choice) ==
    CASE choice = "upload" -> "ask_src"
      [] choice = "folder" -> "ask_new_dir"
      [] choice = "delete" -> "input_deletion_type"
      [] choice = "view"   -> "ask_remote_dir"

\* The else branch of the dispatch: log.error("Invalid choice ..."); sys.exit(1).
InvalidChoice ==
    /\ logged' = "Invalid choice"
    /\ SysExit(1)

\* choice = ask(...).strip().lower() and the dispatch on it.  Each iteration
\* of the loop assigns every other local before it reads it, so the values
\* the iteration before left in them are dropped here; printed holds the
\* lines of the current command only.
AskChoice ==
    /\ pc = "ask_choice"
    /\ \E typed \in ChoiceInputs :
        \/ /\ AskExits(typed)
           /\ SysExit(0)
           /\ hist' = NoteTyped(NewCommand(hist), typed)
           /\ UNCHANGED <<credVars, loc, opVars, logged>>
        \/ /\ ~AskExits(typed)
           /\ hist.commands < MaxCommands
           /\ LET choice == Lower(Strip(AskResponse(typed))) IN
              /\ loc' = [InitLoc EXCEPT !.choice = choice]
              /\ hist' = [NoteTyped(NewCommand(hist), typed) EXCEPT
                            !.commands = @ + 1,
                            !.unrecognizedAt =
                                IF choice \in Commands THEN "none" ELSE "choice"]
              /\ IF choice \in Commands
                 THEN pc' = FirstPrompt(choice) /\ UNCHANGED <<logged, exitStatus>>
                 ELSE InvalidChoice
           /\ printed' = InitPrinted
           /\ UNCHANGED <<credVars, conn, remote, raised, csvFile>>

\* src = path(ask("Local file to upload: "))
AskSrc ==
    /\ pc = "ask_src"
    /\ \/ \E typed \in ExitTokens : AskGoodbye(typed)
       \/ \E p \in LocalInputs :
            /\ loc' = [loc EXCEPT !.src = p]
            /\ pc' = "ask_dst_dir_upload"
            /\ UNCHANGED <<credVars, opVars, logged, exitStatus, hist>>

\* dst_dir = posix_path(ask("Remote directory: ").strip())   (upload)
AskDstDirUpload ==
    /\ pc = "ask_dst_dir_upload"
    /\ \/ \E typed \in ExitTokens : AskGoodbye(typed)
       \/ \E p \in RemoteInputs :
            /\ loc' = [loc EXCEPT !.dst_dir = p]
            /\ pc' = "call_upload"
            /\ UNCHANGED <<credVars, opVars, logged, exitStatus, hist>>

\* new_dir = posix_path(ask("New remote directory: ").strip())
AskNewDir ==
    /\ pc = "ask_new_dir"
    /\ \/ \E typed \in ExitTokens : AskGoodbye(typed)
       \/ \E p \in RemoteInputs :
            /\ loc' = [loc EXCEPT !.new_dir = p]
            /\ pc' = "call_create_dir"
            /\ UNCHANGED <<credVars, opVars, logged, exitStatus, hist>>

\* deletion_type = input("File or Folder? "): read with input(), not ask(),
\* and neither stripped nor lowered.
InputDeletionType ==
    /\ pc = "input_deletion_type"
    /\ \E typed \in KindInputs :
        /\ loc' = [loc EXCEPT !.deletion_type = typed]
        /\ pc' = "ask_dst_dir_delete"
        /\ hist' = [NoteTyped(hist, typed) EXCEPT
                      !.unrecognizedAt =
                          IF typed \in {"file", "folder"} \/ IsExitToken(typed)
                          THEN @ ELSE "deletion_type"]
        /\ UNCHANGED <<credVars, opVars, logged, exitStatus>>

\* dst_dir = posix_path(ask("Remote directory: ").strip())   (delete)
AskDstDirDelete ==
    /\ pc = "ask_dst_dir_delete"
    /\ \/ \E typed \in ExitTokens : AskGoodbye(typed)
       \/ \E p \in RemoteInputs :
            /\ loc' = [loc EXCEPT !.dst_dir = p]
            /\ pc' = "call_delete"
            /\ UNCHANGED <<credVars, opVars, logged, exitStatus, hist>>

\* remote_dir = posix_path(ask("Remote directory to list: ").strip())
AskRemoteDir ==
    /\ pc = "ask_remote_dir"
    /\ \/ \E typed \in ExitTokens : AskGoodbye(typed)
       \/ \E p \in RemoteInputs :
            /\ loc' = [loc EXCEPT !.remote_dir = p]
            /\ pc' = "ask_view_mode"
            /\ UNCHANGED <<credVars, opVars, logged, exitStatus, hist>>

ViewModes == {"list", "tree", "csv"}

ViewCall(view_mode) ==
    CASE view_mode = "list" -> "call_view_list"
      [] view_mode = "tree" -> "call_tree"
      [] view_mode = "csv"  -> "call_view_csv"

\* A mutation of InvalidViewMode: the shell goes on to the Continue prompt.
InvalidViewModeGoesOn ==
    /\ logged' = "Invalid view mode"
    /\ pc' = "ask_restart"
    /\ UNCHANGED exitStatus

\* The else branch of the view modes: log.error("Invalid view mode ..."); sys.exit(1).
InvalidViewMode ==
    /\ logged' = "Invalid view mode"
    /\ SysExit(1)

\* view_mode = ask(...).strip().lower() and the dispatch on it.
AskViewMode ==
    /\ pc = "ask_view_mode"
    /\ \E typed \in ModeInputs :
        \/ AskGoodbye(typed)
        \/ /\ ~AskExits(typed)
           /\ LET view_mode == Lower(Strip(AskResponse(typed))) IN
              /\ loc' = [loc EXCEPT !.view_mode = view_mode]
              /\ hist' = [NoteTyped(hist, typed) EXCEPT
                            !.unrecognizedAt =
                                IF view_mode \in ViewModes THEN @ ELSE "view_mode"]
              /\ IF view_mode \in ViewModes
                 THEN pc' = ViewCall(view_mode) /\ UNCHANGED <<logged, exitStatus>>
                 ELSE InvalidViewMode
           /\ UNCHANGED <<credVars, opVars>>

\* ------------------------------------------------------------- operations
\* `with sftp_connection(hostname, port, username, password) as sftp:` in
\* operation op: the body is entered, or the exception of the entry leaves
\* the operation for the place failpc of main.
EnterSession(op, bodypc, failpc) ==
    \E o \in ConnectOutcomes :
        /\ conn' = SessionEnter(conn, o, port)
        /\ raised' = EnterRaises(o)
        /\ pc' = IF o = "ok" THEN bodypc ELSE failpc
        /\ hist' = [hist EXCEPT !.called = op, !.connects = @ + 1,
                                !.failure = IF o = "ok" THEN @ ELSE "connect"]

\* An except clause of main: log.error(message); sys.exit(1).
ShellExcept(at, message) ==
    /\ pc = at
    /\ logged' = message
    /\ SysExit(1)
    /\ UNCHANGED <<credVars, loc, opVars, hist>>

\* upload_file up to the with statement: the local path is resolved and
\* checked, then the session is entered.
UploadCall ==
    /\ pc = "call_upload"
    /\ IF ~IsLocalFile(Resolve(loc.src))
       THEN /\ raised' = "FileNotFoundError"
            /\ pc' = "except_upload"
            /\ hist' = [hist EXCEPT !.called = "upload", !.failure = "local"]
            /\ UNCHANGED conn
       ELSE EnterSession("upload", "upload_body", "except_upload")
    /\ UNCHANGED <<credVars, loc, remote, printed, csvFile, logged, exitStatus>>

\* The with-body of upload_file (sftp.put) and the exit of the session.
UploadBody ==
    /\ pc = "upload_body"
    /\ LET remote_file == RemoteFile(loc.dst_dir, loc.src)
           r == SftpPut(remote, remote_file)
       IN  /\ remote' = r.store
           /\ conn' = SessionExit(conn)
           /\ raised' = IF r.ok THEN "none" ELSE "IOError"
           /\ pc' = IF r.ok THEN "ask_restart" ELSE "except_upload"
           /\ hist' = [hist EXCEPT !.bodyDone = TRUE,
                                   !.requests = Append(@, <<"put", remote_file>>),
                                   !.failure = IF r.ok THEN @ ELSE "remote"]
    /\ UNCHANGED <<credVars, loc, printed, csvFile, logged, exitStatus>>

ExceptUpload == ShellExcept("except_upload", "Upload failed")

\* create_dir up to the body of its with statement.
CreateDirCall ==
    /\ pc = "call_create_dir"
    /\ EnterSession("folder", "create_dir_body", "except_folder")
    /\ UNCHANGED <<credVars, loc, remote, printed, csvFile, logged, exitStatus>>

\* The with-body of create_dir (mkdir, close, or the except clause) and the
\* exit of the session.
CreateDirBody ==
    /\ pc = "create_dir_body"
    /\ LET r == SftpMkdir(remote, loc.new_dir)
           e == IF r.ok THEN "none" ELSE CreateDirExcept("IOError")
       IN  /\ remote' = r.store
           /\ conn' = SessionExit(IF r.ok THEN CloseChannel(conn) ELSE conn)
           /\ raised' = e
           /\ pc' = IF e = "none" THEN "ask_restart" ELSE "except_folder"
           /\ hist' = [hist EXCEPT !.bodyDone = TRUE,
                                   !.requests = Append(@, <<"mkdir", loc.new_dir>>),
                                   !.failure = IF r.ok THEN @ ELSE "mkdir"]
    /\ UNCHANGED <<credVars, loc, printed, csvFile, logged, exitStatus>>

ExceptFolder == ShellExcept("except_folder", "Folder creation failed")

\* delete up to the body of its with statement.
DeleteCall ==
    /\ pc = "call_delete"
    /\ EnterSession("delete", "delete_body", "except_delete")
    /\ UNCHANGED <<credVars, loc, remote, printed, csvFile, logged, exitStatus>>

\* The with-body of delete and the exit of the session.
DeleteBody ==
    /\ pc = "delete_body"
    /\ LET out == DeleteOutcome(remote, loc.dst_dir, loc.deletion_type)
       IN  /\ remote' = out.store
           /\ conn' = SessionExit(conn)
           /\ raised' = out.raised
           /\ pc' = IF out.raised = "none" THEN "ask_restart" ELSE "except_delete"
           /\ hist' = [hist EXCEPT !.bodyDone = TRUE,
                                   !.requests = @ \o out.requests,
                                   !.failure = IF out.raised = "none" THEN @ ELSE "remote"]
    /\ UNCHANGED <<credVars, loc, printed, csvFile, logged, exitStatus>>

ExceptDelete == ShellExcept("except_delete", "Deletion failed")

\* The with-body of view_contents (listdir, then a stat of every entry) and
\* the exit of the session; the rows are returned to main as files.
ViewContentsBody(at, nextpc, failpc) ==
    /\ pc = at
    /\ LET ok == SftpListdir(remote, loc.remote_dir).ok
       IN  /\ loc' = IF ok THEN [loc EXCEPT !.files = ViewRows(remote, loc.remote_dir)]
                     ELSE loc
           /\ conn' = SessionExit(conn)
           /\ raised' = IF ok THEN "none" ELSE "IOError"
           /\ pc' = IF ok THEN nextpc ELSE failpc
           /\ hist' = [hist EXCEPT !.bodyDone = TRUE,
                                   !.failure = IF ok THEN @ ELSE "remote"]
    /\ UNCHANGED <<credVars, remote, printed, csvFile, logged, exitStatus>>

\* view_mode == "list": view_contents inside the try statement, then the
\* table is printed.
ListCall ==
    /\ pc = "call_view_list"
    /\ EnterSession("list", "view_list_body", "except_list")
    /\ UNCHANGED <<credVars, loc, remote, printed, csvFile, logged, exitStatus>>

ListBody == ViewContentsBody("view_list_body", "ask_restart", "except_list")

ExceptList == ShellExcept("except_list", "Failed to list directory")

\* view_mode == "csv": view_contents is called before the try statement, so
\* its exception is caught by nothing.
CsvListCall ==
    /\ pc = "call_view_csv"
    /\ EnterSession("csv_list", "view_csv_body", "uncaught")
    /\ UNCHANGED <<credVars, loc, remote, printed, csvFile, logged, exitStatus>>

CsvListBody == ViewContentsBody("view_csv_body", "ask_out_file", "uncaught")

\* An exception leaves main: the interpreter prints the traceback and the
\* process ends with status 1; main logs nothing.
Uncaught ==
    /\ pc = "uncaught"
    /\ SysExit(1)
    /\ UNCHANGED <<credVars, loc, opVars, logged, hist>>

\* out_file = path(ask("Output csv file path: "))
AskOutFile ==
    /\ pc = "ask_out_file"
    /\ \E typed \in OutFileInputs :
        \/ AskGoodbye(typed)
        \/ /\ ~AskExits(typed)
           /\ loc' = [loc EXCEPT !.out_file = AskResponse(typed)]
           /\ pc' = "call_output_csv"
           /\ hist' = NoteTyped(hist, typed)
           /\ UNCHANGED <<credVars, opVars, logged, exitStatus>>

\* output_csv: the header and the rows are written, or the local file system
\* refuses (mkdir or open raises).
OutputCsv ==
    /\ pc = "call_output_csv"
    /\ \E ok \in BOOLEAN :
        /\ csvFile' = IF ok THEN [header |-> <<"File", "Last Modified">>, rows |-> loc.files]
                      ELSE csvFile
        /\ raised' = IF ok THEN "none" ELSE "OSError"
        /\ pc' = IF ok THEN "ask_restart" ELSE "except_csv"
        /\ hist' = [hist EXCEPT !.called = "output_csv",
                                !.failure = IF ok THEN @ ELSE "local"]
    /\ UNCHANGED <<credVars, loc, conn, remote, printed, logged, exitStatus>>

ExceptCsv == ShellExcept("except_csv", "Failed to write csv")

\* stfp_formatter up to the body of its with statement.
TreeCall ==
    /\ pc = "call_tree"
    /\ EnterSession("tree", "tree_body", "except_tree")
    /\ UNCHANGED <<credVars, loc, remote, printed, csvFile, logged, exitStatus>>

\* The with-body of stfp_formatter: the root line, _walk(root), the finally
\* clause (sftp.close()), and the exit of the session.
TreeBody ==
    /\ pc = "tree_body"
    /\ LET root == loc.remote_dir
           ok == SftpListdir(remote, root).ok
       IN  /\ printed' = [header |-> root,
                          lines |-> IF ok THEN Walk(remote, root, <<>>) ELSE <<>>]
           /\ conn' = SessionExit(CloseChannel(conn))
           /\ raised' = IF ok THEN "none" ELSE "IOError"
           /\ pc' = IF ok THEN "ask_restart" ELSE "except_tree"
           /\ hist' = [hist EXCEPT !.bodyDone = TRUE,
                                   !.failure = IF ok THEN @ ELSE "remote"]
    /\ UNCHANGED <<credVars, loc, remote, csvFile, logged, exitStatus>>

ExceptTree == ShellExcept("except_tree", "Failed to print tree")

\* ------------------------------------------------------- the restart logic
\* restart = ask("Continue? (yes/no): ").strip().lower(); only "no" breaks.
AskRestart ==
    /\ pc = "ask_restart"
    /\ \E typed \in YesNoInputs :
        \/ AskGoodbye(typed)
        \/ /\ ~AskExits(typed)
           /\ LET restart == Lower(Strip(AskResponse(typed))) IN
              /\ loc' = [loc EXCEPT !.restart = restart]
              /\ hist' = [NoteTyped(hist, typed) EXCEPT
                            !.unrecognizedAt =
                                IF restart \in {"yes", "no"} THEN @ ELSE "restart"]
              /\ IF restart = "no"
                 THEN SysExit(0)
                 ELSE pc' = "ask_same_creds" /\ UNCHANGED exitStatus
           /\ UNCHANGED <<credVars, opVars, logged>>

\* same_creds = ask(...).strip().lower(): "yes" continues, "no" asks for the
\* credentials again, anything else logs an error and continues.
AskSameCreds ==
    /\ pc = "ask_same_creds"
    /\ \E typed \in YesNoInputs :
        \/ AskGoodbye(typed)
        \/ /\ ~AskExits(typed)
           /\ LET same_creds == Lower(Strip(AskResponse(typed))) IN
              /\ loc' = [loc EXCEPT !.same_creds = same_creds]
              /\ hist' = [NoteTyped(hist, typed) EXCEPT
                            !.unrecognizedAt =
                                IF same_creds \in {"yes", "no"} THEN @ ELSE "same_creds"]
              /\ pc' = IF same_creds = "no" THEN "ask_host2" ELSE "ask_choice"
              /\ logged' = IF same_creds \in {"yes", "no"} THEN logged
                           ELSE "Invalid answer"
           /\ UNCHANGED <<credVars, opVars, exitStatus>>

\* host = ask("Host: ").strip()   (credentials entered again)
AskHost2 ==
    /\ pc = "ask_host2"
    /\ \E typed \in HostInputs :
        \/ AskGoodbye(typed)
        \/ /\ ~AskExits(typed)
           /\ host' = Strip(AskResponse(typed))
           /\ pc' = "ask_username2"
           /\ hist' = [NoteTyped(hist, typed) EXCEPT !.typed.host = Strip(typed)]
           /\ UNCHANGED <<username, password, port, loc, opVars, logged, exitStatus>>

\* A mutation of StoreUsername2: the answer is dropped.
StoreUsername2Dropped(response) == username

\* The value line 350 assigns to username.
StoreUsername2(response) == response

\* username = ask("Username: ")   (credentials entered again)
AskUsername2 ==
    /\ pc = "ask_username2"
    /\ \E typed \in UsernameInputs :
        \/ AskGoodbye(typed)
        \/ /\ ~AskExits(typed)
           /\ username' = StoreUsername2(AskResponse(typed))
           /\ pc' = "ask_password2"
           /\ hist' = [NoteTyped(hist, typed) EXCEPT !.typed.username = Strip(typed)]
           /\ UNCHANGED <<host, password, port, loc, opVars, logged, exitStatus>>

\* password = ask("Password: ").strip()   (credentials entered again)
AskPassword2 ==
    /\ pc = "ask_password2"
    /\ \E typed \in PasswordInputs :
        \/ AskGoodbye(typed)
        \/ /\ ~AskExits(typed)
           /\ password' = Strip(AskResponse(typed))
           /\ pc' = "ask_choice"
           /\ hist' = [NoteTyped(hist, typed) EXCEPT !.typed.password = Strip(typed)]
           /\ UNCHANGED <<host, username, port, loc, opVars, logged, exitStatus>>

Next ==
    \/ AskHost \/ AskUsername \/ AskPassword \/ AskChoice
    \/ AskSrc \/ AskDstDirUpload \/ UploadCall \/ UploadBody \/ ExceptUpload
    \/ AskNewDir \/ CreateDirCall \/ CreateDirBody \/ ExceptFolder
    \/ InputDeletionType \/ AskDstDirDelete \/ DeleteCall \/ DeleteBody \/ ExceptDelete
    \/ AskRemoteDir \/ AskViewMode
    \/ ListCall \/ ListBody \/ ExceptList
    \/ CsvListCall \/ CsvListBody \/ Uncaught \/ AskOutFile \/ OutputCsv \/ ExceptCsv
    \/ TreeCall \/ TreeBody \/ ExceptTree
    \/ AskRestart \/ AskSameCreds \/ AskHost2 \/ AskUsername2 \/ AskPassword2

Spec == Init /\ [][Next]_vars

\* ------------------------------------------- the tree-rendering specification
\* The shell has its credentials and is about to call stfp_formatter; the
\* remote store is whatever the other users of the server made it.
InitTree ==
    /\ pc = "env"
    /\ host = "h1" /\ username = "u1" /\ password = "p1" /\ port = DefaultPort
    /\ loc = [InitLoc EXCEPT !.choice = "view", !.view_mode = "tree"]
    /\ conn = InitConn
    /\ remote = [dirs |-> {<<>>}, files |-> {}]
    /\ raised = "none" /\ logged = "none" /\ exitStatus = -1
    /\ printed = InitPrinted
    /\ csvFile = InitCsvFile
    /\ hist = [InitHist EXCEPT !.commands = 1,
                               !.typed = [host |-> "h1", username |-> "u1", password |-> "p1"]]

\* The remote store gains a file or an empty directory.
EnvAdd ==
    /\ pc = "env"
    /\ Cardinality(Entries(remote)) < MaxEntries
    /\ \E d \in remote.dirs, n \in Names, k \in {"file", "dir"} :
        LET p == Append(d, n) IN
        /\ Len(p) <= MaxDepth
        /\ Kind(remote, p) = "none"
        /\ remote' = IF k = "dir" THEN [remote EXCEPT !.dirs = @ \cup {p}]
                     ELSE [remote EXCEPT !.files = @ \cup {p}]
    /\ UNCHANGED <<pc, credVars, loc, conn, raised, logged, exitStatus, printed, csvFile, hist>>

\* The operator asks for the tree of an entry of the store, or of <<1>>.
StartTree ==
    /\ pc = "env"
    /\ \E root \in Entries(remote) \cup {<<1>>} :
        loc' = [loc EXCEPT !.remote_dir = root]
    /\ pc' = "call_tree"
    /\ hist' = [hist EXCEPT !.before = remote]
    /\ UNCHANGED <<credVars, opVars, logged, exitStatus>>

NextTree == EnvAdd \/ StartTree \/ TreeCall \/ TreeBody \/ ExceptTree

SpecTree == InitTree /\ [][NextTree]_vars

\* ------------------------------------------------------------- properties
PromptPcs ==
    {"ask_host", "ask_username", "ask_password", "ask_choice", "ask_src",
     "ask_dst_dir_upload", "ask_new_dir", "input_deletion_type",
     "ask_dst_dir_delete", "ask_remote_dir", "ask_view_mode", "ask_out_file",
     "ask_restart", "ask_same_creds", "ask_host2", "ask_username2", "ask_password2"}

BodyPcs ==
    {"upload_body", "create_dir_body", "delete_body", "view_list_body",
     "view_csv_body", "tree_body"}

ExceptPcs ==
    {"except_upload", "except_folder", "except_delete", "except_list",
     "except_csv", "except_tree"}

InitialPcs == {"ask_host", "ask_username", "ask_password"}

ReentryPcs == {"ask_host2", "ask_username2", "ask_password2"}

FailureMessages ==
    {"Upload failed", "Deletion failed", "Failed to list directory",
     "Failed to print tree", "Failed to write csv"}

NoSessionOpen == conn.transports = 0 /\ conn.channels = 0

NoRemoval(reqs) == \A i \in DOMAIN reqs : reqs[i][1] \notin {"remove", "rmdir"}

\* C1: once an operation that entered sftp_connection has returned or raised
\* (main is anywhere but inside a with-body), no transport and no channel is
\* open.
C1_SessionReleased == pc \notin BodyPcs => NoSessionOpen

\* C2: once the operator has typed the exit token, in any letter case, at any
\* prompt, the process has ended with status 0 (so nothing is done after it).
C2_ExitTerminates == hist.exitTyped => (pc = "done" /\ exitStatus = 0)

\* C3 (as stated): after an unrecognized answer at the command prompt, the
\* view-mode prompt, the File-or-Folder prompt or a yes/no prompt, the
\* process has ended with status 1 and an error logged.
C3_UnrecognizedFatal ==
    hist.unrecognizedAt # "none" =>
        (pc = "done" /\ exitStatus = 1 /\ logged # "none")

\* C3 (amended): an unrecognized answer at the command prompt or at the
\* view-mode prompt ends the process with status 1 and an error logged, with
\* no further prompt.  At the other prompts it is not fatal: after an
\* unrecognized File-or-Folder answer delete sends no remove or rmdir, leaves
\* the store as it was and, once its body ran, returns normally to the
\* Continue prompt; an unrecognized Continue answer is taken as yes; an
\* unrecognized same-credentials answer logs an error and leads to the
\* command prompt with the credentials as they were.
C3_UnrecognizedAmended ==
    /\ hist.unrecognizedAt \in {"choice", "view_mode"} =>
          /\ pc = "done" /\ exitStatus = 1
          /\ logged = (IF hist.unrecognizedAt = "choice"
                       THEN "Invalid choice" ELSE "Invalid view mode")
    /\ hist.unrecognizedAt = "deletion_type" =>
          /\ NoRemoval(hist.requests)
          /\ remote = hist.before
          /\ hist.bodyDone => (raised = "none" /\ exitStatus # 1 /\ pc \notin ExceptPcs)
    /\ hist.unrecognizedAt = "restart" =>
          /\ exitStatus # 1
          /\ pc \in {"ask_same_creds", "ask_choice", "done"} \cup ReentryPcs
    /\ hist.unrecognizedAt = "same_creds" =>
          /\ pc = "ask_choice" /\ exitStatus = -1
          /\ logged = "Invalid answer"
          /\ <<host, username, password>> =
                <<hist.typed.host, hist.typed.username, hist.typed.password>>

C3_Witness ==
    /\ hist.unrecognizedAt = "view_mode"
    /\ pc = "done"
    /\ exitStatus = 1

\* C4: whenever an Upload, Delete or View operation (list, tree, the listing
\* before the CSV write, the CSV write) has failed, the failure is on its way
\* to an except clause of main or main has logged the failure and ended the
\* process with status 1.
C4_FailureLoggedAndFatal ==
    (hist.failure # "none"
       /\ hist.called \in {"upload", "delete", "list", "tree", "csv_list", "output_csv"}) =>
        \/ pc \in ExceptPcs
        \/ (pc = "done" /\ exitStatus = 1 /\ logged \in FailureMessages)

\* C5 (as stated): whenever Create-Directory has failed, nothing was raised to
\* the shell, the session is closed and the process has not ended with
\* status 1.
C5_CreateDirNeverRaises ==
    (hist.called = "folder" /\ hist.failure # "none") =>
        /\ raised = "none"
        /\ NoSessionOpen
        /\ exitStatus # 1
        /\ pc \notin ExceptPcs

\* C5 (amended): a failure of the mkdir request of create_dir is swallowed:
\* nothing is raised, the session is closed, the store is unchanged and the
\* shell goes on from the Continue prompt; a failure to open create_dir's
\* session is raised to the shell, which logs "Folder creation failed" and
\* ends the process with status 1; and a failed mkdir request is the only
\* failure after which the run goes on.
C5_MkdirFailureSwallowed ==
    /\ (hist.called = "folder" /\ hist.failure = "mkdir") =>
          /\ raised = "none"
          /\ NoSessionOpen
          /\ remote = hist.before
          /\ exitStatus # 1
          /\ pc \in {"ask_restart", "ask_same_creds", "ask_choice", "done"} \cup ReentryPcs
    /\ (hist.called = "folder" /\ hist.failure = "connect") =>
          \/ pc = "except_folder"
          \/ (pc = "done" /\ exitStatus = 1 /\ logged = "Folder creation failed")
    /\ (hist.failure # "none" /\ ~(hist.called = "folder" /\ hist.failure = "mkdir")) =>
          \/ pc \in ExceptPcs \cup {"uncaught"}
          \/ (pc = "done" /\ exitStatus = 1)

C5_Witness ==
    /\ hist.called = "folder"
    /\ hist.failure = "mkdir"
    /\ pc = "ask_restart"

\* C6: once the body of delete ran with kind "file": if the path was absent
\* it raised FileNotFoundError, if it was a directory it raised
\* IsADirectoryError, and in both cases no remove or rmdir was sent and the
\* store is unchanged; every remove sent directly follows a stat of the same
\* path, which was a regular file; no rmdir was sent.
C6_DeleteFileChecked ==
    (hist.called = "delete" /\ hist.bodyDone /\ loc.deletion_type = "file") =>
        LET p == loc.dst_dir
            k == Kind(hist.before, p)
            reqs == hist.requests
        IN  /\ k = "none" =>
                  (raised = "FileNotFoundError" /\ NoRemoval(reqs) /\ remote = hist.before)
            /\ k = "dir" =>
                  (raised = "IsADirectoryError" /\ NoRemoval(reqs) /\ remote = hist.before)
            /\ \A i \in DOMAIN reqs :
                  /\ reqs[i][1] # "rmdir"
                  /\ reqs[i][1] = "remove" =>
                        /\ i > 1
                        /\ reqs[i - 1] = <<"stat", reqs[i][2]>>
                        /\ Kind(hist.before, reqs[i][2]) = "file"

C6_Witness ==
    /\ hist.called = "delete" /\ hist.bodyDone /\ loc.deletion_type = "file"
    /\ Kind(hist.before, loc.dst_dir) = "dir"
    /\ raised = "IsADirectoryError"

\* C7: an upload sends at most one put, to dst_dir joined with the last
\* component of the resolved local path, and changes nothing else of the
\* store; when the local path does not resolve to a regular file it raises
\* FileNotFoundError without entering sftp_connection, sending a request or
\* changing the store.
C7_UploadTarget ==
    hist.called = "upload" =>
        LET local_path == Resolve(loc.src)
            target == loc.dst_dir \o <<local_path[Len(local_path)]>>
            reqs == hist.requests
        IN  /\ Len(reqs) <= 1
            /\ \A i \in DOMAIN reqs : reqs[i] = <<"put", target>>
            /\ remote.dirs = hist.before.dirs
            /\ remote.files \subseteq hist.before.files \cup {target}
            /\ hist.before.files \subseteq remote.files
            /\ local_path \notin LocalFiles =>
                  /\ raised = "FileNotFoundError"
                  /\ hist.connects = 0
                  /\ NoSessionOpen
                  /\ reqs = <<>>
                  /\ remote = hist.before

C7_Witness ==
    /\ hist.called = "upload" /\ hist.bodyDone
    /\ raised = "none"
    /\ loc.src = <<1, 2>>
    /\ remote # hist.before

\* C8: once stfp_formatter has printed the tree of a directory, its lines
\* are the entries below that directory, each once, depth-first with the
\* entries of a directory in ascending name order; a line has the last-entry
\* connector exactly when no entry of the same directory has a greater name,
\* and the "/" suffix exactly when its entry is a directory; the prefix of
\* an entry of the root is empty, and the prefix of an entry of another
\* directory is that directory's prefix followed by four spaces if the
\* directory's line has the last-entry connector and by the vertical-bar
\* continuation otherwise.
IsBelow(q, root) == Len(q) > Len(root) /\ SubSeq(q, 1, Len(root)) = root

PreOrderLess(p, q) ==
    /\ p # q
    /\ \/ IsBelow(q, p)
       \/ \E k \in 1..Len(p) :
            /\ k <= Len(q)
            /\ SubSeq(p, 1, k - 1) = SubSeq(q, 1, k - 1)
            /\ p[k] < q[k]

C9_OneSessionPerCommand ==
    /\ conn.transports <= 1
    /\ conn.channels <= 1
    /\ hist.connects <= 1
    /\ pc \in PromptPcs => NoSessionOpen

C9_Witness ==
    /\ hist.commands = 2
    /\ hist.bodyDone
    /\ pc = "ask_restart"

CredsChange == <<host, username, password>>' # <<host, username, password>>

\* C10 (as stated): the stored credentials change only at the prompts that
\* enter them again, reached after the answer yes to Continue and the
\* answer no to same-credentials (or at the first three prompts of the run);
\* at the command prompt they are the values last typed; the port never
\* changes once set, and every session is opened with port 22.
C10_CredsChangeOnlyAfterYes ==
    /\ [][CredsChange =>
            \/ pc \in InitialPcs
            \/ (pc \in ReentryPcs /\ loc.restart = "yes" /\ loc.same_creds = "no")]_vars
    /\ [][(pc \notin InitialPcs) => port' = port]_vars
    /\ [](pc = "ask_choice" =>
            <<host, username, password>> =
               <<hist.typed.host, hist.typed.username, hist.typed.password>>)
    /\ [](conn.transports > 0 => conn.port = 22)

\* C10 (amended): as stated, except that the prompts that enter the
\* credentials again are reached after any answer to Continue other than no
\* (and the exit token), not only after yes.
C10_CredsChangeOnlyOnReentry ==
    /\ [][CredsChange =>
            \/ pc \in InitialPcs
            \/ (pc \in ReentryPcs /\ loc.restart # "no" /\ loc.same_creds = "no")]_vars
    /\ [][(pc \notin InitialPcs) => port' = port]_vars
    /\ [](pc = "ask_choice" =>
            <<host, username, password>> =
               <<hist.typed.host, hist.typed.username, hist.typed.password>>)
    /\ [](conn.transports > 0 => conn.port = 22)

C10_Witness ==
    /\ pc = "ask_choice"
    /\ loc.same_creds = "no"
    /\ hist.commands = 1
    /\ <<host, username, password>> = <<"h2", "u2", "p2">>

====
